---- MODULE Spec2Model ----
(***************************************************************************)
(* Model of process_migration (src/migration-import-unified.py): the      *)
(* validation-merge pipeline that joins a subscriber table with a payment *)
(* provider's card-mapping table, validates the rows stage by stage,      *)
(* collects the failing row ids and materialises the success, no-token    *)
(* and duplicate sets.                                                    *)
(*                                                                         *)
(* A pandas DataFrame is modelled as a set of row records.  A row of the  *)
(* merged table is identified by the pair (temp_row_id, map_idx): the     *)
(* subscriber row and the mapping row it was joined from, which is what   *)
(* the DataFrame index of the outer join distinguishes.  A cell is a      *)
(* string; NaN is the missing value of pandas.                            *)
(***************************************************************************)
EXTENDS Integers, Sequences, FiniteSets, TLC

(***************************************************************************)
(* Bounds of the model.                                                    *)
(***************************************************************************)
MaxSubRows == 2
MaxMapRows == 2

(***************************************************************************)
(* Cells.                                                                  *)
(***************************************************************************)
\* The missing value (a '_' cell of the subscriber file, an empty cell of the
\* mapping file)
NaN == "NaN"
\* _temp_row_id of a row of the outer join that has no subscriber side
NoRowId == 0 - 1
\* index of the mapping row of a merged row that has no mapping side
NoMapIdx == NoRowId

\* astype(str): NaN becomes the string 'nan'
AsStr(v) == IF v = NaN THEN "nan" ELSE v

Char(s, i) == SubSeq(s, i, i)

Digits == {"0", "1", "2", "3", "4", "5", "6", "7", "8", "9"}

\* \d{n} anchored at both ends
MatchDigits(s, n) == Len(s) = n /\ \A i \in 1..n : Char(s, i) \in Digits

RECURSIVE LStrip(_)
LStrip(s) == IF Len(s) > 0 /\ Char(s, 1) = " " THEN LStrip(SubSeq(s, 2, Len(s))) ELSE s

RECURSIVE RStrip(_)
RStrip(s) == IF Len(s) > 0 /\ Char(s, Len(s)) = " " THEN RStrip(SubSeq(s, 1, Len(s) - 1)) ELSE s

\* str.strip()
Strip(s) == LStrip(RStrip(s))

\* notna() & (astype(str).str.strip() != '')
HasCode(v) == v # NaN /\ Strip(v) # ""

\* isna() | (astype(str).str.strip() == '')
IsMissingCode(v) == v = NaN \/ Strip(AsStr(v)) = ""

(***************************************************************************)
(* Column contract.                                                        *)
(***************************************************************************)
required_columns ==
    { "customer_email", "customer_full_name", "customer_external_id",
      "business_tax_identifier", "business_name", "business_company_number",
      "business_external_id", "address_country_code", "address_street_line1",
      "address_street_line2", "address_city", "address_region",
      "address_postal_code", "address_external_id", "status", "currency_code",
      "started_at", "paused_at", "collection_mode", "enable_checkout",
      "purchase_order_number", "additional_information",
      "payment_terms_frequency", "payment_terms_interval",
      "current_period_started_at", "current_period_ends_at",
      "trial_period_frequency", "trial_period_interval",
      "subscription_external_id", "card_token", "discount_id",
      "discount_remaining_cycles", "subscription_custom_data_key_1",
      "subscription_custom_data_value_1", "subscription_custom_data_key_2",
      "subscription_custom_data_value_2", "price_id_1", "quantity_1",
      "price_id_2", "quantity_2" }

\* a check that also lists every column it does not know as missing
missing_or_unknown_columns(columns) ==
    (required_columns \ columns) \cup (columns \ required_columns)

\* validate_subscriber_columns: the required names absent from the observed set
missing_columns(columns) == required_columns \ columns

\* optional_patterns, each followed by \d+
optional_patterns ==
    { "subscription_custom_data_key_", "subscription_custom_data_value_",
      "price_id_", "quantity_" }

\* re.match(pattern, col): the column starts with the pattern's text and at least
\* one digit (the match is not anchored at the end)
MatchesOptional(col) ==
    \E p \in optional_patterns :
      /\ Len(col) > Len(p)
      /\ SubSeq(col, 1, Len(p)) = p
      /\ Char(col, Len(p) + 1) \in Digits

\* validate_subscriber_columns: the observed names that match an optional pattern
\* and are not required
optional_columns(columns) ==
    { c \in columns : MatchesOptional(c) /\ c \notin required_columns }

ColumnsValid(columns) == missing_columns(columns) = {}

(***************************************************************************)
(* Country validator.                                                      *)
(***************************************************************************)
\* a denylist that is matched without regard to case
unsupported_countries_any_case ==
    { "AF", "AQ", "BY", "MM", "CF", "CU", "CD", "HT", "IR", "LY", "ML", "AN",
      "NI", "KP", "RU", "SO", "SS", "SD", "SY", "VE", "YE", "ZW", "ru" }

unsupported_countries ==
    { "AF", "AQ", "BY", "MM", "CF", "CU", "CD", "HT", "IR", "LY", "ML", "AN",
      "NI", "KP", "RU", "SO", "SS", "SD", "SY", "VE", "YE", "ZW" }

\* a list of postal-code-required countries that also holds Brazil
required_countries_and_brazil ==
    { "AU", "CA", "FR", "DE", "IN", "IT", "NL", "ES", "GB", "US", "BR" }

required_countries == { "AU", "CA", "FR", "DE", "IN", "IT", "NL", "ES", "GB", "US" }

\* validate_unsupported_countries: the flagged rows (none when the column is absent)
UnsupportedCountryRows(data, columns) ==
    IF "address_country_code" \notin columns
    THEN {}
    ELSE { r \in data : r.address_country_code \in unsupported_countries }

(***************************************************************************)
(* Date validators.  A date cell is [fmt, t]: fmt is the syntactic class  *)
(* of the string ("iso_z": YYYY-MM-DDTHH:MM:SSZ; "date_only": YYYY-MM-DD;  *)
(* "text": a string that is no date; "nan": a missing cell) and t the      *)
(* instant a date string denotes.                                          *)
(***************************************************************************)
DateColumns == { "current_period_started_at", "current_period_ends_at" }

\* check_date_format: re.match of the literal pattern
check_date_format(value) == value.fmt = "iso_z"

\* pd.to_datetime(errors='coerce').notna(): a date string parses whether or not it
\* carries a time and a zone (the tables of the model hold one written form of
\* date per column, which every pandas version parses cell by cell)
Parses(value) == value.fmt \in { "iso_z", "date_only" }

\* validate_date_format: [valid, incorrect]
validate_date_format(data, columns) ==
    IF ~(DateColumns \subseteq columns)
    THEN [valid |-> FALSE, incorrect |-> {}]
    ELSE LET bad == { r \in data :
                        ~( check_date_format(r.current_period_started_at)
                           /\ check_date_format(r.current_period_ends_at) ) }
         IN [valid |-> bad = {}, incorrect |-> bad]

\* a date logic validator that also rejects a period date equal to now
validate_date_periods_inclusive(data, columns, now) ==
    IF ~(DateColumns \subseteq columns)
    THEN [valid |-> FALSE, incorrect |-> {}]
    ELSE LET valid_data == { r \in data :
                               Parses(r.current_period_started_at)
                               /\ Parses(r.current_period_ends_at) }
             bad == { r \in valid_data :
                        r.current_period_started_at.t >= now
                        \/ r.current_period_ends_at.t <= now }
         IN IF valid_data = {}
            THEN [valid |-> FALSE, incorrect |-> {}]
            ELSE [valid |-> bad = {}, incorrect |-> bad]

\* validate_date_periods: [valid, incorrect]
validate_date_periods(data, columns, now) ==
    IF ~(DateColumns \subseteq columns)
    THEN [valid |-> FALSE, incorrect |-> {}]
    ELSE LET valid_data == { r \in data :
                               Parses(r.current_period_started_at)
                               /\ Parses(r.current_period_ends_at) }
             bad == { r \in valid_data :
                        r.current_period_started_at.t > now
                        \/ r.current_period_ends_at.t < now }
         IN IF valid_data = {}
            THEN [valid |-> FALSE, incorrect |-> {}]
            ELSE [valid |-> bad = {}, incorrect |-> bad]

(***************************************************************************)
(* Postal code validators.                                                 *)
(***************************************************************************)
\* [A-CEGHJ-NPR-TV-Z], matched with case=False
CaLetterClass ==
    { "A", "B", "C", "E", "G", "H", "J", "K", "L", "M", "N", "P", "R", "S", "T",
      "V", "W", "X", "Y", "Z",
      "a", "b", "c", "e", "g", "h", "j", "k", "l", "m", "n", "p", "r", "s", "t",
      "v", "w", "x", "y", "z" }

CaShape(s) ==
    /\ Len(s) = 6
    /\ Char(s, 1) \in CaLetterClass /\ Char(s, 2) \in Digits /\ Char(s, 3) \in CaLetterClass
    /\ Char(s, 4) \in Digits /\ Char(s, 5) \in CaLetterClass /\ Char(s, 6) \in Digits

\* ca_zip_pattern: ^L\dL ?\dL\d$
MatchCa(s) ==
    \/ CaShape(s)
    \/ Len(s) = 7 /\ Char(s, 4) = " " /\ CaShape(SubSeq(s, 1, 3) \o SubSeq(s, 5, 7))

\* validate_ca_zip_codes: [valid, incorrect]
validate_ca_zip_codes(data) ==
    LET ca_records_with_zip == { r \in data : r.address_country_code = "CA"
                                              /\ HasCode(r.address_postal_code) }
        bad == { r \in ca_records_with_zip : ~MatchCa(r.address_postal_code) }
    IN [valid |-> bad = {}, incorrect |-> bad]

\* validate_us_zip_codes: [valid, incorrect, autocorrectable_count]
validate_us_zip_codes(data) ==
    LET us_records_with_zip == { r \in data : r.address_country_code = "US"
                                              /\ HasCode(r.address_postal_code) }
        bad == { r \in us_records_with_zip : ~MatchDigits(r.address_postal_code, 5) }
        four == { r \in us_records_with_zip : MatchDigits(r.address_postal_code, 4) }
    IN [valid |-> bad = {}, incorrect |-> bad, autocorrectable_count |-> Cardinality(four)]

\* validate_bluesnap_card_tokens: [valid, incorrect]; a table without the
\* card_token column is invalid with no record, null and empty tokens are left out
validate_bluesnap_card_tokens(data, columns) ==
    IF "card_token" \notin columns
    THEN [valid |-> FALSE, incorrect |-> {}]
    ELSE LET valid_data == { r \in data : r.card_token # NaN /\ r.card_token # "" }
             bad == { r \in valid_data : ~MatchDigits(AsStr(r.card_token), 13) }
         IN [valid |-> bad = {}, incorrect |-> bad]

\* a padding that leaves the code as it is
NoFill(s) == s

\* str.zfill(5) of a 4-digit code
ZFill5(s) == IF Len(s) = 4 THEN "0" \o s ELSE s

(***************************************************************************)
(* Provider merge.  A Stripe mapping row is [card_id, card_number,        *)
(* card_name, address_zip] (the columns card.id, card.number, card.name,  *)
(* card.address_zip); a Bluesnap mapping row is [account_id,              *)
(* credit_card_number, first_name, last_name, zip_code].                  *)
(***************************************************************************)
\* str[-4:]
Last4(s) == SubSeq(s, IF Len(s) > 4 THEN Len(s) - 3 ELSE 1, Len(s))

\* BlueSnap Account Id + last 4 digits of the credit card number
SyntheticToken(m) == AsStr(m.account_id) \o Last4(AsStr(m.credit_card_number))

\* First Name.str.strip() + " " + Last Name.str.strip()
BluesnapHolderName(m) ==
    IF m.first_name = NaN \/ m.last_name = NaN
    THEN NaN
    ELSE Strip(m.first_name) \o " " \o Strip(m.last_name)

\* the key a mapping row is joined on
MapKey(prov, m) == IF prov = "bluesnap" THEN SyntheticToken(m) ELSE m.card_id

\* the key a subscriber row is joined on (Bluesnap casts it to a string)
SubKey(prov, s) == IF prov = "bluesnap" THEN AsStr(s.card_token) ELSE s.card_token

\* A row of the outer join: m is the mapping row at index mi (mi = NoMapIdx: no
\* mapping side), s the subscriber row (s.temp_row_id = NoRowId: no subscriber side)
JoinedRow(prov, key, mi, m, s) ==
    [ temp_row_id |-> s.temp_row_id,
      map_idx |-> mi,
      merge_key |-> key,
      card_id |-> IF prov = "stripe" THEN key ELSE NaN,
      card_token |-> IF mi = NoMapIdx THEN NaN
                     ELSE IF prov = "bluesnap" THEN m.credit_card_number
                     ELSE m.card_number,
      card_holder_name |-> IF prov = "bluesnap"
                           THEN (IF mi = NoMapIdx THEN NaN ELSE BluesnapHolderName(m))
                           ELSE (IF mi = NoMapIdx \/ m.card_name = NaN
                                 THEN s.customer_full_name ELSE m.card_name),
      mapping_zip |-> IF mi = NoMapIdx THEN NaN
                      ELSE IF prov = "bluesnap" THEN m.zip_code ELSE m.address_zip,
      customer_email |-> s.customer_email,
      customer_full_name |-> s.customer_full_name,
      address_country_code |-> s.address_country_code,
      address_postal_code |-> s.address_postal_code,
      current_period_started_at |-> s.current_period_started_at,
      current_period_ends_at |-> s.current_period_ends_at,
      subscription_external_id |-> s.subscription_external_id,
      is_duplicate_token |-> FALSE ]

NaNDate == [fmt |-> "nan", t |-> 0]

\* the subscriber side of a mapping row that matched no subscriber row
NoSubscriber ==
    [ temp_row_id |-> NoRowId, card_token |-> NaN, customer_email |-> NaN,
      customer_full_name |-> NaN, address_country_code |-> NaN,
      address_postal_code |-> NaN, current_period_started_at |-> NaNDate,
      current_period_ends_at |-> NaNDate, subscription_external_id |-> NaN ]

\* pd.merge(mapping, subscriber, how='outer'): every pair with equal keys (NaN
\* keys pair with NaN keys), every mapping row without a partner and every
\* subscriber row without a partner
OuterJoin(prov, mapping, subs) ==
    LET MI == 1..Len(mapping)
        matched == { JoinedRow(prov, SubKey(prov, s), mi, mapping[mi], s) :
                       <<mi, s>> \in { p \in MI \X subs :
                                         MapKey(prov, mapping[p[1]]) = SubKey(prov, p[2]) } }
        map_only == { JoinedRow(prov, MapKey(prov, mapping[mi]), mi, mapping[mi], NoSubscriber) :
                        mi \in { i \in MI :
                                   \A s \in subs : MapKey(prov, mapping[i]) # SubKey(prov, s) } }
        sub_only == { JoinedRow(prov, SubKey(prov, s), NoMapIdx, NoSubscriber, s) :
                        s \in { x \in subs :
                                  \A i \in MI : MapKey(prov, mapping[i]) # SubKey(prov, x) } }
    IN matched \cup map_only \cup sub_only

\* finaljoin[finaljoin[key].notna()]
DropNullKey(rows) == { r \in rows : r.merge_key # NaN }

\* df.duplicated(subset=col, keep=False): the rows that share their value of the
\* column with another row of the table
Duplicated(rows, col) == { r \in rows : \E o \in rows : o # r /\ o[col] = r[col] }

\* the flag computed on the card number that ends up in the token field
FlagDuplicateCardNumbers(rows) ==
    LET dup == Duplicated(rows, "card_token")
    IN { [r EXCEPT !.is_duplicate_token = (r \in dup)] : r \in rows }

\* finaljoin['is_duplicate_token'] = finaljoin.duplicated(subset=key, keep=False)
FlagDuplicateTokens(rows) ==
    LET dup == Duplicated(rows, "merge_key")
    IN { [r EXCEPT !.is_duplicate_token = (r \in dup)] : r \in rows }

\* Bluesnap: a row without original_credit_card_number has its card_token set to None
\* (JoinedRow already holds the card number of the mapping row as card_token)
Merged(prov, mapping, subs) == FlagDuplicateTokens(DropNullKey(OuterJoin(prov, mapping, subs)))

\* the join raises KeyError when the subscriber table has no card_token column
MergeRaises(columns) == "card_token" \notin columns

(***************************************************************************)
(* Missing postal codes.                                                   *)
(***************************************************************************)
EndsWith(s, suffix) ==
    Len(s) >= Len(suffix) /\ SubSeq(s, Len(s) - Len(suffix) + 1, Len(s)) = suffix

\* clean_dataframe_for_csv on one cell: fillna(''), then the regex \.0$ removed
clean_cell(v) ==
    IF v = NaN \/ v = "nan" THEN ""
    ELSE IF EndsWith(v, ".0") THEN SubSeq(v, 1, Len(v) - 2) ELSE v

\* str.rstrip('.0'): every trailing '.' and '0' removed
RECURSIVE RStripDotZero(_)
RStripDotZero(s) ==
    IF Len(s) > 0 /\ Char(s, Len(s)) \in {".", "0"}
    THEN RStripDotZero(SubSeq(s, 1, Len(s) - 1)) ELSE s

\* str.split('-')[0]
RECURSIVE BeforeDash(_)
BeforeDash(s) ==
    IF Len(s) = 0 \/ Char(s, 1) = "-" THEN ""
    ELSE Char(s, 1) \o BeforeDash(SubSeq(s, 2, Len(s)))

\* re.sub(r'\D', '', s)
RECURSIVE DigitsOnly(_)
DigitsOnly(s) ==
    IF Len(s) = 0 THEN ""
    ELSE (IF Char(s, 1) \in Digits THEN Char(s, 1) ELSE "") \o DigitsOnly(SubSeq(s, 2, Len(s)))

\* the code written to address_postal_code for a mapping zip cell that is not empty
CleanedZip(mapping_zip_code, is_us_record) ==
    LET stripped == Strip(mapping_zip_code)
        undotted == IF EndsWith(stripped, ".0") THEN RStripDotZero(stripped) ELSE stripped
        zip5 == BeforeDash(undotted)
    IN IF ~is_us_record THEN undotted
       ELSE IF DigitsOnly(zip5) # "" THEN DigitsOnly(zip5) ELSE zip5

\* validate_missing_zip_codes: [valid, missing, available_from_mapping]; a KeyError
\* on an absent column is caught and reported as invalid with no records
validate_missing_zip_codes(data, columns) ==
    LET required_records == { r \in data : r.address_country_code \in required_countries }
        missing == { r \in required_records : IsMissingCode(r.address_postal_code) }
        available == { r \in missing : HasCode(r.mapping_zip) }
    IN IF "address_country_code" \notin columns
       THEN [valid |-> FALSE, missing |-> {}, available_from_mapping |-> 0]
       ELSE IF required_records = {}
       THEN [valid |-> TRUE, missing |-> {}, available_from_mapping |-> 0]
       ELSE IF "address_postal_code" \notin columns
       THEN [valid |-> FALSE, missing |-> {}, available_from_mapping |-> 0]
       ELSE [valid |-> missing = {}, missing |-> missing,
             available_from_mapping |-> Cardinality(available)]

\* the loop over missing_records: each missing row whose (cleaned) mapping zip cell
\* is not empty gets its postal code from it
Backfill(data, missing) ==
    { IF r \in missing /\ Strip(clean_cell(r.mapping_zip)) # ""
      THEN [r EXCEPT !.address_postal_code =
                       CleanedZip(clean_cell(r.mapping_zip), r.address_country_code = "US")]
      ELSE r : r \in data }

(***************************************************************************)
(* Failure aggregation and the pipeline's bookkeeping.                     *)
(***************************************************************************)
\* the _temp_row_id values of a set of records (rows without one are dropped)
RowIds(records) == { r.temp_row_id : r \in { x \in records : x.temp_row_id # NoRowId } }

\* failed_row_ids.update(failed_ids)
CollectFailed(failed, records) == failed \cup RowIds(records)

\* a removal pass that leaves the working table as it is
KeepFailed(data, failed) == data

\* completed[~completed['_temp_row_id'].isin(failed_row_ids)]
RemoveFailed(data, failed) == { r \in data : r.temp_row_id \notin failed }

\* one entry of validation_results
Result(step, valid, count) == [step |-> step, valid |-> valid, count |-> count]

StepsOf(results) == { results[i].step : i \in 1..Len(results) }

\* generate_random_email: 'blackhole+' + five random characters + '@paddle.com'
PlaceholderEmails == { "blackhole+aaaaa@paddle.com", "blackhole+bbbbb@paddle.com" }

(***************************************************************************)
(* The state of one run of process_migration.                              *)
(***************************************************************************)
VARIABLES
    pc,                 \* the stage the run is about to execute
    args,               \* the call: subscriber_file, mapping_file, columns, provider,
                        \* is_sandbox, autocorrect_us_zip, use_mapping_zip_codes
    subscribedata,      \* the subscriber table, tagged with _temp_row_id
    completed,          \* the merged working table (finaljoin, then completed)
    validation_results, \* the list of stage results
    failed_row_ids,     \* the aggregated failure set
    flagged,            \* per validator: the row ids it flags at the end of its stage
    current_datetime,   \* datetime.now() as sampled by the date logic validator
    duplicate_emails_before_anonymization,
    duplicate_tokens_before_removal,
    duplicate_card_ids_before_removal,
    duplicate_external_subscription_ids_before_removal,
    duplicate_emails_for_report,
    no_tokens,
    success,
    outcome,            \* "none" while running, then "failed" or "success"
    before_anonymization,   \* history: completed as the anonymization step found it
    before_removal,         \* history: completed as the removal pass found it
    first_run               \* the artifacts of an earlier run on the same call, if any

vars == << pc, args, subscribedata, completed, validation_results, failed_row_ids,
           flagged, current_datetime, duplicate_emails_before_anonymization,
           duplicate_tokens_before_removal, duplicate_card_ids_before_removal,
           duplicate_external_subscription_ids_before_removal,
           duplicate_emails_for_report, no_tokens, success, outcome,
           before_anonymization, before_removal, first_run >>

dupvars == << duplicate_emails_before_anonymization, duplicate_tokens_before_removal,
              duplicate_card_ids_before_removal,
              duplicate_external_subscription_ids_before_removal,
              duplicate_emails_for_report >>

histvars == << before_anonymization, before_removal, first_run >>

\* an order in which the duplicate sets are computed after the removal pass
RemovalBeforeDuplicates ==
    << "ingest", "column_validation", "unsupported_countries_validation",
       "date_format_validation", "date_validation", "merge",
       "missing_zip_code_validation", "prune_columns", "email_filter",
       "email_duplicates", "anonymize", "ca_zip_code_validation",
       "us_zip_code_validation", "no_tokens", "removal", "duplicates", "success",
       "report", "return", "done" >>

\* an order in which the emails are anonymized after the removal pass
AnonymizeAfterRemoval ==
    << "ingest", "column_validation", "unsupported_countries_validation",
       "date_format_validation", "date_validation", "merge",
       "missing_zip_code_validation", "prune_columns", "email_filter",
       "email_duplicates", "ca_zip_code_validation", "us_zip_code_validation",
       "duplicates", "no_tokens", "removal", "anonymize", "success",
       "report", "return", "done" >>

\* an order in which the rows without a token are collected after the removal pass
NoTokensAfterRemoval ==
    << "ingest", "column_validation", "unsupported_countries_validation",
       "date_format_validation", "date_validation", "merge",
       "missing_zip_code_validation", "prune_columns", "email_filter",
       "email_duplicates", "anonymize", "ca_zip_code_validation",
       "us_zip_code_validation", "duplicates", "removal", "no_tokens", "success",
       "report", "return", "done" >>

\* the order in which process_migration executes its stages
Pipeline ==
    << "ingest", "column_validation", "unsupported_countries_validation",
       "date_format_validation", "date_validation", "merge",
       "missing_zip_code_validation", "prune_columns", "email_filter",
       "email_duplicates", "anonymize", "ca_zip_code_validation",
       "us_zip_code_validation", "duplicates", "no_tokens", "removal", "success",
       "report", "return", "done" >>

StageIndex(stage) == CHOOSE i \in 1..Len(Pipeline) : Pipeline[i] = stage

After(stage) == Pipeline[StageIndex(stage) + 1]

\* the stage has been executed
Passed(stage) == pc \in { Pipeline[i] : i \in (StageIndex(stage) + 1)..Len(Pipeline) }

\* a run that returns as soon as a stage result is invalid
StopOnFailure(stage, valid) == IF valid THEN After(stage) ELSE "return"

\* A stage whose result is invalid adds it to the results and the run goes on to
\* the next stage; the overall decision is taken once, at the end
Continue(stage, valid) == After(stage)

NoFlags ==
    [ country |-> {}, date_format |-> {}, date_logic |-> {}, missing_zip |-> {},
      ca_zip |-> {}, us_zip |-> {} ]

(***************************************************************************)
(* The calls the model explores.                                           *)
(***************************************************************************)
Providers == { "stripe", "bluesnap" }

\* the join keys of the subscriber rows
K1(prov) == IF prov = "stripe" THEN "card_1" ELSE "A11111"
K2(prov) == IF prov = "stripe" THEN "card_2" ELSE "A21111"

Date(t) == [fmt |-> "iso_z", t |-> t]
TextDate == [fmt |-> "text", t |-> 0]
DateOnly(t) == [fmt |-> "date_only", t |-> t]

\* a clock that two runs read at different instants
DriftingNow == { 1, 2 }

\* the instants datetime.now() is drawn from; Date(0) is before, Date(2) after
NowValues == { 1 }

SubRow(key, email, subid, country, postal, started, ends) ==
    [ card_token |-> key, customer_email |-> email, customer_full_name |-> "Ann Lee",
      address_country_code |-> country, address_postal_code |-> postal,
      current_period_started_at |-> started, current_period_ends_at |-> ends,
      subscription_external_id |-> subid ]

StripeMapRow(id, number, zip) ==
    [ card_id |-> id, card_number |-> number, card_name |-> "A. Lee", address_zip |-> zip ]

BluesnapMapRow(account, number, zip) ==
    [ account_id |-> account, credit_card_number |-> number, first_name |-> "Ann ",
      last_name |-> "Lee", zip_code |-> zip ]

\* mapping rows: two with the same join key (and, for Bluesnap, different card
\* numbers) and one with another key
MapRows(prov, zip) ==
    IF prov = "stripe"
    THEN { StripeMapRow("card_1", "4242000011112222", zip),
           StripeMapRow("card_2", "4242000033334444", zip) }
    ELSE { BluesnapMapRow("A1", "4111111111111111", zip),
           BluesnapMapRow("A1", "5222222222221111", zip),
           BluesnapMapRow("A2", "4111111111111111", zip) }

FirstMapRow(prov, zip) ==
    IF prov = "stripe" THEN StripeMapRow("card_1", "4242000011112222", zip)
    ELSE BluesnapMapRow("A1", "4111111111111111", zip)

\* the tables of at most n rows drawn from a set of rows
Tables(rows, n) == UNION { [1..k -> rows] : k \in 0..n }

Call(subs, maps, cols, prov, sandbox, autocorrect, use_mapping) ==
    [ subscriber_file |-> subs, mapping_file |-> maps, columns |-> cols,
      provider |-> prov, is_sandbox |-> sandbox, autocorrect_us_zip |-> autocorrect,
      use_mapping_zip_codes |-> use_mapping ]

\* join keys and emails, present or missing, against mapping tables with repeated keys
JoinRows(prov) ==
    { SubRow(k, e, "sub_1", "GB", "SW1A 1AA", Date(0), Date(2)) :
        k \in {NaN, K1(prov), K2(prov)}, e \in {"a@x.io", NaN} }

JoinCalls ==
    \E prov \in Providers :
      \E subs \in Tables(JoinRows(prov), MaxSubRows) :
        \E maps \in Tables(MapRows(prov, NaN), MaxMapRows) :
          args = Call(subs, maps, required_columns, prov, FALSE, FALSE, FALSE)

\* rows that share emails and subscription ids, some of them in an unsupported country
DuplicateRows(prov) ==
    { SubRow(K1(prov), e, sid, c, "SW1A 1AA", Date(0), Date(2)) :
        e \in {"a@x.io", "b@x.io"}, sid \in {"sub_1", "sub_2"}, c \in {"GB", "RU"} }

DuplicateCalls ==
    \E prov \in Providers :
      \E subs \in Tables(DuplicateRows(prov), MaxSubRows) :
        \E maps \in Tables({FirstMapRow(prov, NaN)}, MaxMapRows) :
          args = Call(subs, maps, required_columns, prov, FALSE, FALSE, FALSE)

\* sandbox runs: rows that share or differ in email and key, one mapping row
SandboxRows(prov) ==
    { SubRow(k, e, "sub_1", "GB", "SW1A 1AA", Date(0), Date(2)) :
        k \in {K1(prov), K2(prov)}, e \in {"a@x.io", "b@x.io"} }

SandboxCalls ==
    \E prov \in Providers :
      \E subs \in Tables(SandboxRows(prov), MaxSubRows) :
        args = Call(subs, << FirstMapRow(prov, NaN) >>, required_columns, prov,
                    TRUE, FALSE, FALSE)

\* US postal codes: valid, four digits, malformed and empty
UsRows(prov) ==
    { SubRow(K1(prov), "a@x.io", "sub_1", "US", code, Date(0), Date(2)) :
        code \in {"12345", "2301", "123", ""} }

\* Canadian and other postal codes beside an autocorrectable US code
MixedRows(prov) ==
    { SubRow(K1(prov), "a@x.io", "sub_1", cp[1], cp[2], Date(0), Date(2)) :
        cp \in { <<"US", "2301">>, <<"CA", "K1A 0B1">>, <<"CA", "123456">>,
                 <<"CA", "1234">>, <<"CA", "">>, <<"BR", "">> } }

\* mapping tables whose rows carry a zip, one whose row carries none and one whose
\* row carries a dash in its place
ZipTables(prov) ==
    Tables({FirstMapRow(prov, "02301-1234")}, MaxMapRows)
      \cup { << FirstMapRow(prov, NaN) >>, << FirstMapRow(prov, "-") >> }

PostalCalls ==
    \E prov \in Providers :
      \E rows \in {UsRows(prov), MixedRows(prov)} :
        \E subs \in Tables(rows, MaxSubRows) :
          \E maps \in ZipTables(prov) :
            \E autocorrect \in BOOLEAN, use_mapping \in BOOLEAN :
              args = Call(subs, maps, required_columns, prov, FALSE, autocorrect, use_mapping)

\* Canadian codes: well formed with and without the space and in lower case, with
\* the letters W, Z and D, with two spaces, and all digits
CanadianRows(prov) ==
    { SubRow(K1(prov), "a@x.io", "sub_1", "CA", code, Date(0), Date(2)) :
        code \in { "K1A 0B1", "K1A0B1", "k1a 0b1", "W1A 0B1", "K1Z 0B1", "D1A 0B1",
                   "K1A  0B1", "12345" } }

CanadianCalls ==
    \E prov \in Providers :
      \E subs \in Tables(CanadianRows(prov), MaxSubRows) :
        \E autocorrect \in BOOLEAN :
          args = Call(subs, << FirstMapRow(prov, NaN) >>, required_columns, prov,
                      FALSE, autocorrect, FALSE)

\* a mapping row without the cardholder's name (Bluesnap: without the first name)
Nameless(prov, m) ==
    IF prov = "stripe" THEN [m EXCEPT !.card_name = NaN] ELSE [m EXCEPT !.first_name = NaN]

\* subscriber rows joined with mapping rows that carry a cardholder name or none
CardholderCalls ==
    \E prov \in Providers :
      \E subs \in Tables({ SubRow(k, "a@x.io", "sub_1", "GB", "SW1A 1AA", Date(0), Date(2)) :
                             k \in {K1(prov), K2(prov)} }, MaxSubRows) :
        \E maps \in Tables({ FirstMapRow(prov, NaN), Nameless(prov, FirstMapRow(prov, NaN)) },
                            MaxMapRows) :
          args = Call(subs, maps, required_columns, prov, FALSE, FALSE, FALSE)

\* period dates before, at and after now, and a malformed one
DateRows(prov) ==
    { SubRow(K1(prov), "a@x.io", "sub_1", "GB", "SW1A 1AA", d[1], d[2]) :
        d \in { <<Date(0), Date(2)>>, <<Date(2), Date(2)>>, <<Date(0), Date(0)>>,
                <<Date(1), Date(1)>>, <<TextDate, Date(2)>> } }

DateCalls ==
    \E prov \in Providers :
      \E subs \in Tables(DateRows(prov), MaxSubRows) :
        \E maps \in Tables({FirstMapRow(prov, NaN)}, MaxMapRows) :
          args = Call(subs, maps, required_columns, prov, FALSE, FALSE, FALSE)

\* period dates written without time and zone, before and after now
DateOnlyRows(prov) ==
    { SubRow(k, "a@x.io", "sub_1", "GB", "SW1A 1AA", DateOnly(d[1]), DateOnly(d[2])) :
        k \in { K1(prov), K2(prov) },
        d \in { <<0, 2>>, <<2, 2>>, <<0, 0>>, <<1, 1>> } }

DateOnlyCalls ==
    \E prov \in Providers :
      \E subs \in Tables(DateOnlyRows(prov), MaxSubRows) :
        \E maps \in Tables({FirstMapRow(prov, NaN)}, MaxMapRows) :
          args = Call(subs, maps, required_columns, prov, FALSE, FALSE, FALSE)

\* the required columns a subscriber file of the model may lack
DroppableColumns ==
    { "business_name", "customer_email", "card_token", "address_country_code",
      "address_postal_code", "current_period_started_at" }

\* the cells of a row whose column the file lacks are missing
Blank(row, cols) ==
    [ f \in DOMAIN row |->
        IF f \in cols \/ f \notin required_columns THEN row[f]
        ELSE IF f \in DateColumns THEN NaNDate ELSE NaN ]

ColumnRows(prov, cols) ==
    { Blank(SubRow(K1(prov), "a@x.io", "sub_1", cp[1], cp[2], Date(0), Date(2)), cols) :
        cp \in { <<"GB", "SW1A 1AA">>, <<"US", "2301">>, <<"RU", "">>, <<"ru", "">> } }

\* subscriber files that lack one required column
ColumnCalls ==
    \E prov \in Providers, col \in DroppableColumns :
      \E subs \in Tables(ColumnRows(prov, required_columns \ {col}), MaxSubRows) :
        \E maps \in Tables({FirstMapRow(prov, NaN)}, MaxMapRows) :
          args = Call(subs, maps, required_columns \ {col}, prov, FALSE, FALSE, FALSE)

\* columns beside the required ones: numbered optional columns, an unknown column,
\* a required name in another case and an optional name without its number
ExtraColumns ==
    { { "price_id_3", "quantity_3" },
      { "subscription_custom_data_key_3", "subscription_custom_data_value_3" },
      { "quantity_10", "notes" },
      { "Customer_Email", "price_id_x" } }

\* subscriber files with extra columns, complete or without price_id_2
ExtraColumnCalls ==
    \E prov \in Providers, extra \in ExtraColumns, drop \in { {}, { "price_id_2" } } :
      \E subs \in Tables(ColumnRows(prov, required_columns), MaxSubRows) :
        \E maps \in Tables({FirstMapRow(prov, NaN)}, MaxMapRows) :
          args = Call(subs, maps, (required_columns \ drop) \cup extra, prov,
                      FALSE, FALSE, FALSE)

Calls ==
    \/ JoinCalls
    \/ DuplicateCalls
    \/ SandboxCalls
    \/ PostalCalls
    \/ CanadianCalls
    \/ CardholderCalls
    \/ DateCalls
    \/ DateOnlyCalls
    \/ ColumnCalls
    \/ ExtraColumnCalls

(***************************************************************************)
(* The run.                                                                *)
(***************************************************************************)
\* no earlier run
NoRun == [done |-> FALSE]

\* the state in which process_migration is entered
Entry ==
    /\ pc = "ingest"
    /\ subscribedata = {}
    /\ completed = {}
    /\ validation_results = << >>
    /\ failed_row_ids = {}
    /\ flagged = NoFlags
    /\ current_datetime = 0
    /\ duplicate_emails_before_anonymization = {}
    /\ duplicate_tokens_before_removal = {}
    /\ duplicate_card_ids_before_removal = {}
    /\ duplicate_external_subscription_ids_before_removal = {}
    /\ duplicate_emails_for_report = {}
    /\ no_tokens = {}
    /\ success = {}
    /\ outcome = "none"
    /\ before_anonymization = {}
    /\ before_removal = {}

Init ==
    /\ Calls
    /\ Entry
    /\ first_run = NoRun

\* subscribedata['_temp_row_id'] = range(len(subscribedata))
Tagged(file) ==
    { [ f \in DOMAIN file[i] \cup {"temp_row_id"} |->
          IF f = "temp_row_id" THEN i - 1 ELSE file[i][f] ] : i \in 1..Len(file) }

Ingest ==
    /\ pc = "ingest"
    /\ subscribedata' = Tagged(args.subscriber_file)
    /\ pc' = After("ingest")
    /\ UNCHANGED << args, completed, validation_results, failed_row_ids, flagged,
                    current_datetime, dupvars, no_tokens, success, outcome, histvars >>

\* a failed column validation is added to the results and processing continues
ColumnValidation ==
    /\ pc = "column_validation"
    /\ validation_results' =
         Append(validation_results,
                Result("column_validation", ColumnsValid(args.columns),
                       Cardinality(missing_columns(args.columns))))
    /\ pc' = Continue("column_validation", ColumnsValid(args.columns))
    /\ UNCHANGED << args, subscribedata, completed, failed_row_ids, flagged,
                    current_datetime, dupvars, no_tokens, success, outcome, histvars >>

UnsupportedCountriesValidation ==
    /\ pc = "unsupported_countries_validation"
    /\ LET bad == UnsupportedCountryRows(subscribedata, args.columns)
       IN /\ flagged' = [flagged EXCEPT !.country = RowIds(bad)]
          /\ failed_row_ids' = CollectFailed(failed_row_ids, bad)
          /\ validation_results' =
               Append(validation_results,
                      Result("unsupported_countries_validation", bad = {}, Cardinality(bad)))
          /\ pc' = Continue("unsupported_countries_validation", bad = {})
    /\ UNCHANGED << args, subscribedata, completed, current_datetime, dupvars,
                    no_tokens, success, outcome, histvars >>

DateFormatValidation ==
    /\ pc = "date_format_validation"
    /\ LET v == validate_date_format(subscribedata, args.columns)
       IN /\ flagged' = [flagged EXCEPT !.date_format = RowIds(v.incorrect)]
          /\ failed_row_ids' = CollectFailed(failed_row_ids, v.incorrect)
          /\ validation_results' =
               Append(validation_results,
                      Result("date_format_validation", v.valid, Cardinality(v.incorrect)))
          /\ pc' = Continue("date_format_validation", v.valid)
    /\ UNCHANGED << args, subscribedata, completed, current_datetime, dupvars,
                    no_tokens, success, outcome, histvars >>

DateValidation ==
    /\ pc = "date_validation"
    /\ \E now \in NowValues :
         LET v == validate_date_periods(subscribedata, args.columns, now)
         IN /\ current_datetime' = now
            /\ flagged' = [flagged EXCEPT !.date_logic = RowIds(v.incorrect)]
            /\ failed_row_ids' = CollectFailed(failed_row_ids, v.incorrect)
            /\ validation_results' =
                 Append(validation_results,
                        Result("date_validation", v.valid, Cardinality(v.incorrect)))
            /\ pc' = Continue("date_validation", v.valid)
    /\ UNCHANGED << args, subscribedata, completed, dupvars, no_tokens, success,
                    outcome, histvars >>

\* the provider-specific join; a subscriber table without card_token raises
Merge ==
    /\ pc = "merge"
    /\ IF MergeRaises(args.columns)
       THEN /\ pc' = "raised"
            /\ UNCHANGED completed
       ELSE /\ completed' = Merged(args.provider, args.mapping_file, subscribedata)
            /\ pc' = After("merge")
    /\ UNCHANGED << args, subscribedata, validation_results, failed_row_ids, flagged,
                    current_datetime, dupvars, no_tokens, success, outcome, histvars >>

\* the missing-postal-code stage: detection, the optional backfill from the mapping
\* zip column with detection run again, and the result appended after the branches
MissingZipCodeValidation ==
    /\ pc = "missing_zip_code_validation"
    /\ LET first == validate_missing_zip_codes(completed, args.columns)
           backfill == ~first.valid /\ args.use_mapping_zip_codes
                       /\ first.available_from_mapping > 0
           data == IF backfill THEN Backfill(completed, first.missing) ELSE completed
           last == IF backfill THEN validate_missing_zip_codes(data, args.columns) ELSE first
           own == IF first.valid THEN << >>
                  ELSE << Result("missing_zip_code_validation", last.valid,
                                 Cardinality(last.missing)) >>
       IN /\ completed' = data
          /\ flagged' = [flagged EXCEPT !.missing_zip = RowIds(last.missing)]
          /\ failed_row_ids' = CollectFailed(failed_row_ids, last.missing)
          /\ validation_results' =
               validation_results \o own
               \o << Result("missing_zip_code_validation", TRUE, 0) >>
          /\ pc' = Continue("missing_zip_code_validation", last.valid)
    /\ UNCHANGED << args, subscribedata, current_datetime, dupvars, no_tokens,
                    success, outcome, histvars >>

\* Bluesnap keeps the columns of its output order only, which drops 'Zip Code';
\* Stripe keeps card.address_zip
Pruned(prov, data) ==
    IF prov = "stripe" THEN data
    ELSE { [r EXCEPT !.mapping_zip = NaN] : r \in data }

\* provider-specific column removal and ordering
PruneColumns ==
    /\ pc = "prune_columns"
    /\ completed' = Pruned(args.provider, completed)
    /\ pc' = After("prune_columns")
    /\ UNCHANGED << args, subscribedata, validation_results, failed_row_ids, flagged,
                    current_datetime, dupvars, no_tokens, success, outcome, histvars >>

\* completed[completed['customer_email'].notna()]
WithEmail(data) == { r \in data : r.customer_email # NaN }

EmailFilter ==
    /\ pc = "email_filter"
    /\ completed' = WithEmail(completed)
    /\ pc' = After("email_filter")
    /\ UNCHANGED << args, subscribedata, validation_results, failed_row_ids, flagged,
                    current_datetime, dupvars, no_tokens, success, outcome, histvars >>

\* email duplicate detection that does not look at the mode
EmailDuplicatesInEveryMode(sandbox, data) == Duplicated(data, "customer_email")

\* duplicate emails are detected before anonymization, and skipped in sandbox mode
EmailDuplicatesOf(sandbox, data) == IF sandbox THEN {} ELSE Duplicated(data, "customer_email")

EmailDuplicates ==
    /\ pc = "email_duplicates"
    /\ duplicate_emails_before_anonymization' = EmailDuplicatesOf(args.is_sandbox, completed)
    /\ pc' = After("email_duplicates")
    /\ UNCHANGED << args, subscribedata, completed, validation_results, failed_row_ids,
                    flagged, current_datetime, duplicate_tokens_before_removal,
                    duplicate_card_ids_before_removal,
                    duplicate_external_subscription_ids_before_removal,
                    duplicate_emails_for_report, no_tokens, success, outcome, histvars >>

\* a replacement that also rewrites the customer name
ReplaceEmailAndName(r, email) ==
    [r EXCEPT !.customer_email = email, !.customer_full_name = "Test Customer"]

\* completed['customer_email'] = generate_random_email(): only the email is assigned
ReplaceEmail(r, email) == [r EXCEPT !.customer_email = email]

\* sandbox: every customer_email is replaced by a fresh generate_random_email()
Anonymize ==
    /\ pc = "anonymize"
    /\ before_anonymization' = completed
    /\ IF args.is_sandbox
       THEN \E email \in [completed -> PlaceholderEmails] :
              completed' = { ReplaceEmail(r, email[r]) : r \in completed }
       ELSE UNCHANGED completed
    /\ pc' = After("anonymize")
    /\ UNCHANGED << args, subscribedata, validation_results, failed_row_ids, flagged,
                    current_datetime, dupvars, no_tokens, success, outcome, before_removal,
                    first_run >>

CaZipCodeValidation ==
    /\ pc = "ca_zip_code_validation"
    /\ LET v == validate_ca_zip_codes(completed)
       IN /\ flagged' = [flagged EXCEPT !.ca_zip = RowIds(v.incorrect)]
          /\ failed_row_ids' = CollectFailed(failed_row_ids, v.incorrect)
          /\ validation_results' =
               Append(validation_results,
                      Result("ca_zip_code_validation", v.valid, Cardinality(v.incorrect)))
          /\ pc' = Continue("ca_zip_code_validation", v.valid)
    /\ UNCHANGED << args, subscribedata, completed, current_datetime, dupvars,
                    no_tokens, success, outcome, histvars >>

\* an autocorrection that pads the four-digit codes of every country
AutocorrectedEveryCountry(data) ==
    { IF MatchDigits(AsStr(r.address_postal_code), 4)
      THEN [r EXCEPT !.address_postal_code = ZFill5(r.address_postal_code)]
      ELSE r : r \in data }

\* US rows whose code is exactly four digits get a leading zero
Autocorrected(data) ==
    { IF r.address_country_code = "US" /\ MatchDigits(AsStr(r.address_postal_code), 4)
      THEN [r EXCEPT !.address_postal_code = ZFill5(r.address_postal_code)]
      ELSE r : r \in data }

\* US validation, the optional autocorrection and the validation run again
UsZipCodeValidation ==
    /\ pc = "us_zip_code_validation"
    /\ LET first == validate_us_zip_codes(completed)
           autocorrect == ~first.valid /\ args.autocorrect_us_zip
                          /\ first.autocorrectable_count > 0
           data == IF autocorrect THEN Autocorrected(completed) ELSE completed
           last == IF autocorrect THEN validate_us_zip_codes(data) ELSE first
       IN /\ completed' = data
          /\ flagged' = [flagged EXCEPT !.us_zip = RowIds(last.incorrect)]
          /\ failed_row_ids' = CollectFailed(failed_row_ids, last.incorrect)
          /\ validation_results' =
               Append(validation_results,
                      Result("us_zip_code_validation", last.valid, Cardinality(last.incorrect)))
          /\ pc' = Continue("us_zip_code_validation", last.valid)
    /\ UNCHANGED << args, subscribedata, current_datetime, dupvars, no_tokens,
                    success, outcome, histvars >>

\* the token report: the rows whose flag was set at the join
FlaggedDuplicateTokens(data) == { r \in data : r.is_duplicate_token }

\* the card id report (Stripe only)
DuplicateCardIds(prov, data) ==
    IF prov = "stripe" THEN { r \in Duplicated(data, "card_id") : r.card_id # NaN } ELSE {}

\* the duplicate sets, computed before the failed rows are removed
Duplicates ==
    /\ pc = "duplicates"
    /\ duplicate_tokens_before_removal' = FlaggedDuplicateTokens(completed)
    /\ duplicate_card_ids_before_removal' = DuplicateCardIds(args.provider, completed)
    /\ duplicate_external_subscription_ids_before_removal' =
         Duplicated(completed, "subscription_external_id")
    /\ pc' = After("duplicates")
    /\ UNCHANGED << args, subscribedata, completed, validation_results, failed_row_ids,
                    flagged, current_datetime, duplicate_emails_before_anonymization,
                    duplicate_emails_for_report, no_tokens, success, outcome, histvars >>

\* completed[completed['card_token'].isnull()]
WithoutToken(data) == { r \in data : r.card_token = NaN }

\* the rows without a token, and their row ids added to the failure set
NoTokens ==
    /\ pc = "no_tokens"
    /\ no_tokens' = WithoutToken(completed)
    /\ failed_row_ids' = CollectFailed(failed_row_ids, WithoutToken(completed))
    /\ pc' = After("no_tokens")
    /\ UNCHANGED << args, subscribedata, completed, validation_results, flagged,
                    current_datetime, dupvars, success, outcome, histvars >>

\* the single removal pass of the failure aggregator
Removal ==
    /\ pc = "removal"
    /\ before_removal' = completed
    /\ completed' = RemoveFailed(completed, failed_row_ids)
    /\ pc' = After("removal")
    /\ UNCHANGED << args, subscribedata, validation_results, failed_row_ids, flagged,
                    current_datetime, dupvars, no_tokens, success, outcome,
                    before_anonymization, first_run >>

\* completed[completed['card_token'].notna()]
WithToken(data) == { r \in data : r.card_token # NaN }

\* the success set, and the email report (empty in sandbox mode)
Success ==
    /\ pc = "success"
    /\ success' = WithToken(completed)
    /\ duplicate_emails_for_report' =
         IF args.is_sandbox THEN {} ELSE duplicate_emails_before_anonymization
    /\ pc' = After("success")
    /\ UNCHANGED << args, subscribedata, completed, validation_results, failed_row_ids,
                    flagged, current_datetime, duplicate_emails_before_anonymization,
                    duplicate_tokens_before_removal, duplicate_card_ids_before_removal,
                    duplicate_external_subscription_ids_before_removal, no_tokens,
                    outcome, histvars >>

\* a duplicate report that is added as a failure
DuplicateFailure(step, records) ==
    IF records = {} THEN << >> ELSE << Result(step, FALSE, Cardinality(records)) >>

\* a duplicate report is added as a warning when it holds a row
Warning(step, records) ==
    IF records = {} THEN << >> ELSE << Result(step, TRUE, Cardinality(records)) >>

\* a no-token box that is reported as a warning
NoTokenWarning(records) == Result("no_token_found", TRUE, Cardinality(records))

\* the no-token box is always added, valid iff no row lacks a token
NoTokenResult(records) == Result("no_token_found", records = {}, Cardinality(records))

Report ==
    /\ pc = "report"
    /\ validation_results' =
         validation_results
         \o Warning("duplicate_tokens", duplicate_tokens_before_removal)
         \o Warning("duplicate_external_subscription_ids",
                    duplicate_external_subscription_ids_before_removal)
         \o Warning("duplicate_emails", duplicate_emails_for_report)
         \o Warning("duplicate_card_ids", duplicate_card_ids_before_removal)
         \o << NoTokenResult(no_tokens) >>
         \o Warning("successfully_mapped_records", success)
    /\ pc' = After("report")
    /\ UNCHANGED << args, subscribedata, completed, failed_row_ids, flagged,
                    current_datetime, dupvars, no_tokens, success, outcome, histvars >>

\* failed_validations = [v for v in validation_results if not v.get('valid', True)]
Overall(results) ==
    IF \E i \in 1..Len(results) : ~results[i].valid THEN "failed" ELSE "success"

Return ==
    /\ pc = "return"
    /\ outcome' = Overall(validation_results)
    /\ pc' = After("return")
    /\ UNCHANGED << args, subscribedata, completed, validation_results, failed_row_ids,
                    flagged, current_datetime, dupvars, no_tokens, success, histvars >>

Next ==
    \/ Ingest
    \/ ColumnValidation
    \/ UnsupportedCountriesValidation
    \/ DateFormatValidation
    \/ DateValidation
    \/ Merge
    \/ MissingZipCodeValidation
    \/ PruneColumns
    \/ EmailFilter
    \/ EmailDuplicates
    \/ Anonymize
    \/ CaZipCodeValidation
    \/ UsZipCodeValidation
    \/ Duplicates
    \/ NoTokens
    \/ Removal
    \/ Success
    \/ Report
    \/ Return

Spec == Init /\ [][Next]_vars

(***************************************************************************)
(* Two runs on the same call: the request handler calls process_migration *)
(* again with the same files and flags.                                    *)
(***************************************************************************)
\* the rows of the success artifact and of the failure artifacts of a finished run
Artifacts ==
    [ done |-> TRUE,
      result |-> outcome,
      success |-> success,
      no_token_found |-> no_tokens,
      incorrect |-> flagged,
      duplicate_tokens |-> duplicate_tokens_before_removal,
      duplicate_card_ids |-> duplicate_card_ids_before_removal,
      duplicate_external_subscription_ids |->
          duplicate_external_subscription_ids_before_removal,
      duplicate_emails |-> duplicate_emails_for_report ]

\* the call is made again once the first run has returned
Rerun ==
    /\ pc = "done"
    /\ ~first_run.done
    /\ first_run' = Artifacts
    /\ pc' = "ingest"
    /\ subscribedata' = {}
    /\ completed' = {}
    /\ validation_results' = << >>
    /\ failed_row_ids' = {}
    /\ flagged' = NoFlags
    /\ current_datetime' = 0
    /\ duplicate_emails_before_anonymization' = {}
    /\ duplicate_tokens_before_removal' = {}
    /\ duplicate_card_ids_before_removal' = {}
    /\ duplicate_external_subscription_ids_before_removal' = {}
    /\ duplicate_emails_for_report' = {}
    /\ no_tokens' = {}
    /\ success' = {}
    /\ outcome' = "none"
    /\ before_anonymization' = {}
    /\ before_removal' = {}
    /\ UNCHANGED args

\* the calls of the two-run specification: sandbox and production, with rows that
\* fail and rows that are delivered
TwoRunCalls ==
    \/ SandboxCalls
    \/ DuplicateCalls
    \/ DateCalls

InitTwoRuns ==
    /\ TwoRunCalls
    /\ Entry
    /\ first_run = NoRun

NextTwoRuns ==
    \/ Next
    \/ Rerun

TwoRuns == InitTwoRuns /\ [][NextTwoRuns]_vars

(***************************************************************************)
(* Properties of a run.                                                    *)
(***************************************************************************)
Done == pc = "done"

\* the row ids the subscriber file was tagged with
OriginalRowIds == 0..(Len(args.subscriber_file) - 1)

\* the subscriber row's join key is the join key of a mapping row
HasCounterpart(s) ==
    /\ s.card_token # NaN
    /\ \E i \in 1..Len(args.mapping_file) :
         MapKey(args.provider, args.mapping_file[i]) = SubKey(args.provider, s)

\* C1: every row id carried by the rows of the final success set occurs there
\* exactly once and is a row id of the original subscriber table, whatever the
\* mapping table (also one in which several rows carry the same join key)
C1_SuccessRowIdsUniqueAndOriginal ==
    Done => /\ \A a, b \in success : a.temp_row_id = b.temp_row_id => a = b
            /\ \A r \in success : r.temp_row_id \in OriginalRowIds

\* the row ids a validator other than the missing-postal-code one flags at the end
\* of its stage
FlaggedByValidators ==
    flagged.country \cup flagged.date_format \cup flagged.date_logic
    \cup flagged.ca_zip \cup flagged.us_zip

\* C2: a row that the country, date format, date logic, Canadian postal or US
\* postal validator still flags at the end of its stage (after any
\* autocorrection) is not in the success set of the finished run
C2_FlaggedRowsNotInSuccess ==
    Done => \A r \in success : r.temp_row_id \notin FlaggedByValidators

\* C2: a finished run with autocorrection in which the US validator still flags a
\* row and another row is delivered
C2_Witness ==
    /\ Done
    /\ args.autocorrect_us_zip
    /\ flagged.us_zip # {}
    /\ success # {}

\* C3: every subscriber row whose join key has no counterpart in the mapping table
\* (a null key included) is in the no-token set and not in the success set of the
\* finished run, and a run on a table with all required columns does not raise
C3_UnmatchedRowsInNoTokenSet ==
    /\ Done => \A s \in subscribedata :
                 ~HasCounterpart(s) =>
                   /\ s.temp_row_id \in RowIds(no_tokens)
                   /\ s.temp_row_id \notin RowIds(success)
    /\ ColumnsValid(args.columns) => pc # "raised"

\* C4: from the join to the removal pass every subscriber row is in the working
\* set (the join, the null-key filter, the null-email filter and the column
\* pruning drop none), and in the finished run every subscriber row id is in the
\* success set or in the failure set
C4_RowsLeaveOnlyAtRemoval ==
    /\ (Passed("merge") /\ ~Passed("removal")) =>
         RowIds(subscribedata) \subseteq RowIds(completed)
    /\ Done => \A s \in subscribedata :
                 \/ s.temp_row_id \in RowIds(success)
                 \/ s.temp_row_id \in failed_row_ids
\* C5 as stated: the overall result of a finished run is 'failed' exactly when
\* the aggregated failure set is non-empty
C5_FailedIffFailureSetNonEmpty ==
    Done => (outcome = "failed" <=> failed_row_ids # {})

\* no subscriber row has two period dates that parse (an empty table has none)
NoParseableDates ==
    \A s \in subscribedata :
      ~(Parses(s.current_period_started_at) /\ Parses(s.current_period_ends_at))

\* C5: the overall result of a finished run is 'failed' whenever the aggregated
\* failure set is non-empty; it is also 'failed' with an empty failure set when a
\* required column is absent or no row has two parseable period dates, and in no
\* other case
C5_FailedIffAnyResultInvalid ==
    Done => ( outcome = "failed" <=>
                \/ failed_row_ids # {}
                \/ ~ColumnsValid(args.columns)
                \/ NoParseableDates )

\* C5: a finished run that failed on rows, and whose columns and dates are in order
C5_Witness ==
    /\ Done
    /\ outcome = "failed"
    /\ failed_row_ids # {}
    /\ ColumnsValid(args.columns)
    /\ ~NoParseableDates

\* the stages whose result is added in every run
CoreSteps ==
    { "column_validation", "unsupported_countries_validation",
      "date_format_validation", "date_validation", "missing_zip_code_validation",
      "ca_zip_code_validation", "us_zip_code_validation", "no_token_found" }

\* the duplicate reports, added as warnings
DuplicateSteps ==
    { "duplicate_tokens", "duplicate_external_subscription_ids", "duplicate_emails",
      "duplicate_card_ids" }

\* C6 as stated: when the overall result is 'failed', the collection holds the
\* result of every stage: the eight validators and the no-token stage, and a
\* result of the duplicates stage
C6_FailedRunHoldsEveryStage ==
    (Done /\ outcome = "failed") =>
      /\ CoreSteps \subseteq StepsOf(validation_results)
      /\ DuplicateSteps \cap StepsOf(validation_results) # {}

\* C6: when the overall result is 'failed', the collection holds the result of the
\* column contract, country, date format, date logic, missing postal, Canadian
\* postal, US postal and no-token stages, whichever of them failed; a duplicate
\* report is in the collection exactly when its duplicate set is non-empty
C6_FailedRunHoldsCoreStages ==
    (Done /\ outcome = "failed") =>
      /\ CoreSteps \subseteq StepsOf(validation_results)
      /\ "duplicate_tokens" \in StepsOf(validation_results)
           <=> duplicate_tokens_before_removal # {}
      /\ "duplicate_external_subscription_ids" \in StepsOf(validation_results)
           <=> duplicate_external_subscription_ids_before_removal # {}
      /\ "duplicate_emails" \in StepsOf(validation_results)
           <=> duplicate_emails_for_report # {}
      /\ "duplicate_card_ids" \in StepsOf(validation_results)
           <=> duplicate_card_ids_before_removal # {}

\* C6: a failed run with failed rows and no duplicate report
C6_Witness ==
    /\ Done
    /\ outcome = "failed"
    /\ failed_row_ids # {}
    /\ DuplicateSteps \cap StepsOf(validation_results) = {}

ReportedCount(step) ==
    LET entries == { i \in 1..Len(validation_results) : validation_results[i].step = step }
    IN IF entries = {} THEN 0
       ELSE validation_results[CHOOSE i \in entries : TRUE].count

\* the counts reported for the four duplicate keys are the sizes of the four reports
CountsMatchReports ==
    /\ ReportedCount("duplicate_tokens") = Cardinality(duplicate_tokens_before_removal)
    /\ ReportedCount("duplicate_card_ids") = Cardinality(duplicate_card_ids_before_removal)
    /\ ReportedCount("duplicate_external_subscription_ids")
         = Cardinality(duplicate_external_subscription_ids_before_removal)
    /\ ReportedCount("duplicate_emails") = Cardinality(duplicate_emails_for_report)

SharedKeyAtJoin(r) ==
    \E o \in Merged(args.provider, args.mapping_file, subscribedata) :
      /\ << o.temp_row_id, o.map_idx >> # << r.temp_row_id, r.map_idx >>
      /\ o.merge_key = r.merge_key

Anonymized(data) == \A r \in data : r.customer_email \in PlaceholderEmails

FourDigitUs(r) ==
    r.address_country_code = "US" /\ MatchDigits(AsStr(r.address_postal_code), 4)

\* the rows of a table that stem from the same join pair as r
SameRow(r, data) ==
    { x \in data : x.temp_row_id = r.temp_row_id /\ x.map_idx = r.map_idx }

BadCanadian(r) ==
    /\ r.address_country_code = "CA"
    /\ HasCode(r.address_postal_code)
    /\ ~MatchCa(r.address_postal_code)

\* C12: the Canadian stage flags every Canadian row of the working set whose
\* non-empty code does not match the Canadian pattern and puts its row id in the
\* failure set, with the US autocorrection flag on or off; the US stage, with or
\* without autocorrection, leaves every row whose country is not US as it is
C12_CanadianCodesNeverAutocorrected ==
    [][ /\ pc = "ca_zip_code_validation" =>
             \A r \in completed :
               BadCanadian(r) => /\ r.temp_row_id \in flagged'.ca_zip
                                 /\ r.temp_row_id \in failed_row_ids'
        /\ pc = "us_zip_code_validation" =>
             \A r \in completed :
               r.address_country_code # "US" => r \in completed' ]_vars

\* C12: autocorrection has padded a US code, and a Canadian row with a four-digit
\* code is still as it was, flagged and in the failure set
C12_Witness ==
    /\ Passed("us_zip_code_validation")
    /\ args.autocorrect_us_zip
    /\ \E r \in completed : r.address_country_code = "US" /\ r.address_postal_code = "02301"
    /\ \E r \in completed :
         /\ r.address_country_code = "CA"
         /\ r.address_postal_code = "1234"
         /\ r.temp_row_id \in flagged.ca_zip
         /\ r.temp_row_id \in failed_row_ids
\* the letters the Canadian pattern is documented to allow: no D, F, I, O, Q, U, W, Z
DocumentedCaLetters == CaLetterClass \ { "W", "Z", "w", "z" }

DocumentedCaShape(s) ==
    /\ Len(s) = 6
    /\ Char(s, 1) \in DocumentedCaLetters /\ Char(s, 2) \in Digits
    /\ Char(s, 3) \in DocumentedCaLetters /\ Char(s, 4) \in Digits
    /\ Char(s, 5) \in DocumentedCaLetters /\ Char(s, 6) \in Digits

\* letter-digit-letter, an optional single space, digit-letter-digit
DocumentedCaMatch(s) ==
    \/ DocumentedCaShape(s)
    \/ Len(s) = 7 /\ Char(s, 4) = " "
       /\ DocumentedCaShape(SubSeq(s, 1, 3) \o SubSeq(s, 5, 7))

\* C13: the Canadian validator accepts a non-empty Canadian code exactly when it
\* has the shape letter-digit-letter, optional single space, digit-letter-digit
\* with none of its letters among D, F, I, O, Q, U, W, Z, and flags every other
\* Canadian code
C13_CanadianPatternExcludesEightLetters ==
    pc = "us_zip_code_validation" =>
      \A r \in completed :
        (r.address_country_code = "CA" /\ HasCode(r.address_postal_code)) =>
          ( r.temp_row_id \notin flagged.ca_zip
              <=> DocumentedCaMatch(r.address_postal_code) )
\* a set of rows with the customer emails blanked
WithoutEmails(rows) == { [r EXCEPT !.customer_email = ""] : r \in rows }

\* the artifacts with the customer emails of their rows blanked
EmailsAside(a) ==
    [ a EXCEPT !.success = WithoutEmails(@),
               !.no_token_found = WithoutEmails(@),
               !.duplicate_tokens = WithoutEmails(@),
               !.duplicate_card_ids = WithoutEmails(@),
               !.duplicate_external_subscription_ids = WithoutEmails(@),
               !.duplicate_emails = WithoutEmails(@) ]

C15_AnonymizationChangesOnlyEmail ==
    [][ pc = "anonymize" =>
          IF args.is_sandbox
          THEN /\ \A r \in completed :
                    \E e \in PlaceholderEmails :
                      SameRow(r, completed') = { [r EXCEPT !.customer_email = e] }
               /\ \A x \in completed' : SameRow(x, completed) # {}
          ELSE completed' = completed ]_vars

\* C15: a sandbox run past the anonymization step whose row holds a placeholder
\* email and the customer name of the subscriber file
C15_Witness ==
    /\ Passed("anonymize")
    /\ args.is_sandbox
    /\ \E r \in completed :
         /\ r.customer_email \in PlaceholderEmails
         /\ r.customer_full_name = "Ann Lee"
         /\ \E b \in SameRow(r, before_anonymization) : b.customer_email = "a@x.io"
\* the rows of the four duplicate reports
DuplicateReports ==
    duplicate_tokens_before_removal \cup duplicate_card_ids_before_removal
    \cup duplicate_external_subscription_ids_before_removal
    \cup duplicate_emails_for_report

\* the row ids flagged by any validator, the missing-postal-code one included
FlaggedByAnyValidator == FlaggedByValidators \cup flagged.missing_zip

\* C16: in a finished run every row of a duplicate report that has a provider
\* match and is flagged by no validator is in the success set; the failure set
\* holds only the row ids flagged by the validators and those of the no-token
\* rows, none because of a duplicate; every duplicate result is recorded valid
C16_DuplicatesArePurelyInformational ==
    Done =>
      /\ \A r \in DuplicateReports :
           (r.card_token # NaN /\ r.temp_row_id \notin FlaggedByAnyValidator) =>
             SameRow(r, success) # {}
      /\ failed_row_ids = FlaggedByAnyValidator \cup RowIds(no_tokens)
      /\ \A i \in 1..Len(validation_results) :
           validation_results[i].step \in DuplicateSteps => validation_results[i].valid

\* C16: a finished run that reports duplicates, delivers a reported row and whose
\* overall result is 'success'
C16_Witness ==
    /\ Done
    /\ outcome = "success"
    /\ DuplicateSteps \cap StepsOf(validation_results) # {}
    /\ \E r \in DuplicateReports : SameRow(r, success) # {}
\* C17: in the Stripe branch and in the Bluesnap branch, every record of the
\* merged table whose cardholder name is missing after the join carries the
\* subscriber's customer_full_name as cardholder name (so a record is without a
\* cardholder name only if it has no customer_full_name either)
C17_CardholderNameFallsBackToFullName ==
    Passed("merge") =>
      \A r \in completed : r.card_holder_name = NaN => r.customer_full_name = NaN

\* C18: with provider Bluesnap every subscriber row whose non-empty card_token is
\* not exactly 13 digits is reported by the run as a card-token format issue (a
\* card_token_validation result counting these rows, the rows in the failure
\* set); with provider Stripe the run reports no card-token format issue
C18_BluesnapCardTokenIssuesReported ==
    Done =>
      LET bad == validate_bluesnap_card_tokens(subscribedata, args.columns).incorrect
      IN IF args.provider = "bluesnap"
         THEN bad # {} =>
                /\ "card_token_validation" \in StepsOf(validation_results)
                /\ ReportedCount("card_token_validation") = Cardinality(bad)
                /\ RowIds(bad) \subseteq failed_row_ids
         ELSE "card_token_validation" \notin StepsOf(validation_results)

\* the US rows of a table that carry a postal code
UsRecordsWithZip(data) ==
    { r \in data : r.address_country_code = "US" /\ HasCode(r.address_postal_code) }

\* C19: the US validation puts each non-empty US code in exactly one class: five
\* digits is valid, four digits is a missing-leading-zero issue that is not
\* counted among the incorrect-format issues, anything else is an
\* incorrect-format issue; rows of other countries are in neither class
C19_UsCodesFallInExactlyOneClass ==
    pc = "us_zip_code_validation" =>
      LET v == validate_us_zip_codes(completed)
          us == UsRecordsWithZip(completed)
          missing_zero == { r \in us : MatchDigits(r.address_postal_code, 4) }
          incorrect_format == { r \in us : /\ ~MatchDigits(r.address_postal_code, 5)
                                           /\ ~MatchDigits(r.address_postal_code, 4) }
      IN /\ v.autocorrectable_count = Cardinality(missing_zero)
         /\ v.incorrect = incorrect_format
         /\ v.incorrect \cap missing_zero = {}
         /\ \A r \in completed : r.address_country_code # "US" => r \notin v.incorrect

\* the synthetic key of the record's mapping side (the key of the subscriber side
\* when the record has no mapping side)
SyntheticKeyOf(r) ==
    IF r.map_idx = NoMapIdx THEN r.merge_key
    ELSE SyntheticToken(args.mapping_file[r.map_idx])

\* C20: in the Bluesnap branch the duplicate-token flag is computed at the join on
\* the synthetic key (account id + last four card digits), before the token
\* field holds the full card number: a record leaves the join flagged iff another
\* record of the joined table has its synthetic key, two records of the working
\* set that share the synthetic key are both in the token report whether their
\* card numbers are equal or not, and a record is never in the report without
\* having shared its synthetic key, whatever its card number is equal to
C20_TokenFlagFollowsSyntheticKey ==
    args.provider = "bluesnap" =>
      /\ pc = After("merge") =>
            \A r \in completed :
              r.is_duplicate_token
                <=> \E o \in completed : o # r /\ SyntheticKeyOf(o) = SyntheticKeyOf(r)
      /\ Done =>
            /\ \A r \in before_removal : \A o \in before_removal :
                  (o # r /\ SyntheticKeyOf(o) = SyntheticKeyOf(r))
                    => {r, o} \subseteq duplicate_tokens_before_removal
            /\ \A r \in duplicate_tokens_before_removal :
                  \E o \in Merged(args.provider, args.mapping_file, subscribedata) :
                    /\ << o.temp_row_id, o.map_idx >> # << r.temp_row_id, r.map_idx >>
                    /\ SyntheticKeyOf(o) = SyntheticKeyOf(r)

\* C20: a finished Bluesnap run that reports two records with the same synthetic
\* key and different card numbers
C20_Witness ==
    /\ Done
    /\ args.provider = "bluesnap"
    /\ \E r \in duplicate_tokens_before_removal : \E o \in duplicate_tokens_before_removal :
         /\ SyntheticKeyOf(o) = SyntheticKeyOf(r)
         /\ o.card_token # r.card_token
         /\ o.card_token # NaN /\ r.card_token # NaN

\* C21: the date logic validator evaluates only rows whose two period dates pass
\* the date format validator: a row with a date the format validator rejects is
\* never flagged by the date logic validator nor counted in its result
C21_DateLogicOnlyOnWellFormedDates ==
    Passed("date_validation") =>
      /\ flagged.date_logic \cap flagged.date_format = {}
      /\ ReportedCount("date_validation")
           = Cardinality({ r \in subscribedata :
                             /\ check_date_format(r.current_period_started_at)
                             /\ check_date_format(r.current_period_ends_at)
                             /\ \/ r.current_period_started_at.t > current_datetime
                                \/ r.current_period_ends_at.t < current_datetime })

\* the subscriber rows whose two period dates parse
Evaluated == { r \in subscribedata : /\ Parses(r.current_period_started_at)
                                      /\ Parses(r.current_period_ends_at) }

C23_MissingCodesReportedNotFixed ==
    [][ (ColumnsValid(args.columns) /\ ~args.use_mapping_zip_codes) =>
          /\ pc = "missing_zip_code_validation" =>
                LET missing ==
                      { r \in completed :
                          /\ r.address_country_code
                               \in { "AU", "CA", "FR", "DE", "IN", "IT", "NL", "ES", "GB", "US" }
                          /\ \/ r.address_postal_code = NaN
                             \/ Strip(AsStr(r.address_postal_code)) = "" }
                    added == { i \in Len(validation_results) + 1 .. Len(validation_results') :
                                 ~validation_results'[i].valid }
                IN /\ completed' = completed
                   /\ flagged'.missing_zip = RowIds(missing)
                   /\ missing # {} =>
                         /\ added # {}
                         /\ \A i \in added : validation_results'[i].count = Cardinality(missing)
                         /\ RowIds(missing) \subseteq failed_row_ids'
                   /\ missing = {} => added = {} /\ failed_row_ids' = failed_row_ids
          /\ (pc' = "done" /\ flagged'.missing_zip # {}) => outcome' = "failed" ]_vars

\* C23: a run without resolution mode has reported a row with an empty code in a
\* postal-code-required country beside a row of another country with an empty code
C23_Witness ==
    /\ Done
    /\ ~args.use_mapping_zip_codes
    /\ outcome = "failed"
    /\ \E r \in before_removal :
         /\ r.address_country_code \in required_countries
         /\ r.address_postal_code = ""
         /\ r.temp_row_id \in flagged.missing_zip
    /\ \E r \in before_removal :
         /\ r.address_country_code \notin required_countries
         /\ r.address_postal_code = ""
         /\ r.temp_row_id \notin flagged.missing_zip

\* C24: with backfill from the mapping selected, every missing row whose mapping
\* zip column holds a non-empty value leaves the missing-postal stage with a
\* postal code and is not reported missing by the detection run after the backfill
C24_RecoverableRowsAreBackfilled ==
    [][ ( /\ pc = "missing_zip_code_validation"
          /\ ColumnsValid(args.columns)
          /\ args.use_mapping_zip_codes ) =>
          \A r \in completed :
            ( /\ r.address_country_code \in required_countries
              /\ IsMissingCode(r.address_postal_code)
              /\ HasCode(r.mapping_zip) ) =>
              /\ r.temp_row_id \notin flagged'.missing_zip
              /\ \A n \in completed' :
                    << n.temp_row_id, n.map_idx >> = << r.temp_row_id, r.map_idx >>
                      => ~IsMissingCode(n.address_postal_code) ]_vars

\* C25 as stated: the success set and the no-token set partition the post-removal
\* record set: the success set is its rows with a token, the no-token set its
\* rows without one, and the two are disjoint
C25_OutputsPartitionPostRemovalSet ==
    Passed("success") =>
      /\ success = { r \in completed : r.card_token # NaN }
      /\ no_tokens = { r \in completed : r.card_token = NaN }
      /\ success \cap no_tokens = {}

\* C25: the success set is exactly the rows of the post-removal record set with a
\* token; the no-token set is exactly the rows without a token of the record set
\* as the removal pass finds it; the removal pass removes every row that carries
\* the row id of a no-token row, so the post-removal set holds no row without a
\* token and the two sets are disjoint
C25_SuccessPostRemovalNoTokenPreRemoval ==
    Passed("success") =>
      /\ success = { r \in completed : r.card_token # NaN }
      /\ no_tokens = { r \in before_removal : r.card_token = NaN }
      /\ RowIds(no_tokens) \cap RowIds(completed) = {}
      /\ { r \in completed : r.card_token = NaN } = {}
      /\ success \cap no_tokens = {}

\* C25: a finished run with a row in the success set and a row in the no-token set
C25_Witness ==
    /\ Done
    /\ success # {}
    /\ no_tokens # {}

\* C26: validate_subscriber_columns is valid iff every required column name is in
\* the observed set, its missing_columns are exactly the required names that are
\* absent, and an extra column that matches a numbered optional pattern is in
\* optional_columns and never in missing_columns; the run records this result
C26_ColumnsValidIffRequiredPresent ==
    Passed("column_validation") =>
      LET missing == missing_columns(args.columns)
          optional == optional_columns(args.columns)
          numbered == { "price_id_3", "quantity_3", "quantity_10",
                        "subscription_custom_data_key_3",
                        "subscription_custom_data_value_3" }
      IN /\ ColumnsValid(args.columns) <=> \A c \in required_columns : c \in args.columns
         /\ missing = { c \in required_columns : c \notin args.columns }
         /\ \A c \in numbered \cap args.columns : c \in optional /\ c \notin missing
         /\ validation_results[1].step = "column_validation"
         /\ validation_results[1].valid = (missing = {})
         /\ validation_results[1].count = Cardinality(missing)

\* C26: the column check has run on a file that lacks a required column and holds
\* a numbered optional one
C26_Witness ==
    /\ Passed("column_validation")
    /\ "price_id_2" \notin args.columns
    /\ "price_id_3" \in optional_columns(args.columns)
    /\ ~validation_results[1].valid

\* C27: in sandbox mode any two rows that shared a customer email before
\* anonymization have different customer emails after it
C27_SharedEmailsDifferAfterAnonymization ==
    (args.is_sandbox /\ Passed("anonymize")) =>
      \A r \in completed : \A o \in completed :
        ( /\ << r.temp_row_id, r.map_idx >> # << o.temp_row_id, o.map_idx >>
          /\ \E br \in SameRow(r, before_anonymization) :
               \E bo \in SameRow(o, before_anonymization) :
                 br.customer_email = bo.customer_email )
          => r.customer_email # o.customer_email

\* C28: the country validator flags a row iff its country code is, by exact
\* match, one of the denylisted codes; the row id of every flagged row is added to
\* the failure set and the result counts the flagged rows; a file without the
\* country-code column gets a valid result with no flagged row
C28_DenylistedCountriesFlagged ==
    Passed("unsupported_countries_validation") =>
      LET denylisted ==
            { r \in subscribedata :
                r.address_country_code
                  \in { "AF", "AQ", "BY", "MM", "CF", "CU", "CD", "HT", "IR", "LY", "ML",
                        "AN", "NI", "KP", "RU", "SO", "SS", "SD", "SY", "VE", "YE", "ZW" } }
          bad == IF "address_country_code" \in args.columns THEN denylisted ELSE {}
      IN /\ flagged.country = RowIds(bad)
         /\ RowIds(bad) \subseteq failed_row_ids
         /\ \E i \in 1..Len(validation_results) :
              /\ validation_results[i].step = "unsupported_countries_validation"
              /\ validation_results[i].valid = (bad = {})
              /\ validation_results[i].count = Cardinality(bad)

\* C28: the country validator has flagged a row of a denylisted country beside a
\* row whose code differs from a denylisted one in case only
C28_Witness ==
    /\ Passed("unsupported_countries_validation")
    /\ \E r \in subscribedata :
         r.address_country_code = "RU" /\ r.temp_row_id \in flagged.country
    /\ \E r \in subscribedata :
         r.address_country_code = "ru" /\ r.temp_row_id \notin flagged.country

\* C29: the validation_results of a run never hold, for one step name, an entry
\* with valid = false and an entry with valid = true; when the missing-postal-code
\* stage fails, no passing 'missing_zip_code_validation' entry is recorded
C29_NoStepBothFailedAndPassed ==
    \A i \in 1..Len(validation_results) : \A j \in 1..Len(validation_results) :
      validation_results[i].step = validation_results[j].step
        => validation_results[i].valid = validation_results[j].valid

\* C30: every row of a duplicate report (join token, card id, subscription id,
\* email) shares its value of the report's key with another row of the same
\* report: no report holds a row that is alone on its key
C30_NoReportedRowAloneOnItsKey ==
    Done =>
      /\ Duplicated(duplicate_tokens_before_removal, "merge_key")
           = duplicate_tokens_before_removal
      /\ Duplicated(duplicate_card_ids_before_removal, "card_id")
           = duplicate_card_ids_before_removal
      /\ Duplicated(duplicate_external_subscription_ids_before_removal,
                    "subscription_external_id")
           = duplicate_external_subscription_ids_before_removal
      /\ Duplicated(duplicate_emails_for_report, "customer_email")
           = duplicate_emails_for_report

====
